---- MODULE Spec2Model ----
(***************************************************************************)
(* Scene-graph core of src/src/scene/container/Container.ts: the node      *)
(* tree (parent / children), render-group membership, the two dirty        *)
(* latches and destroy.  A render group is identified by its root node:    *)
(* a node owns at most one group in its life (enableRenderGroup returns    *)
(* early once `renderGroup.root === this`, and nothing demotes a root).    *)
(*                                                                         *)
(* RenderGroup.ts and the children helper mixin are not among the source   *)
(* files; their operations (RG_*, removeFromParent, removeChildren) are    *)
(* modelled from spec.md sections 3, 4.2 and 4.4.  The same holds for      *)
(* ObservablePoint, Matrix and Color (spec.md sections 2, 3 and 4.1) and    *)
(* for the external update passes (section 6).                             *)
(***************************************************************************)
EXTENDS Integers, Sequences, FiniteSets, TLC

\* ------------------------------------------------------------------ bounds
NumNodes == 4
NumTreeNodes == 3
NumNestNodes == 4
NumLatchNodes == 2
MaxChildren == 2
MaxCalls == 3
MaxQueue == 2
NumSubjectNodes == 1
MaxAlpha == 1
MaxCoord == 1
MaxTurns == 1
MaxShift == 1

Nodes == 1..NumNodes
\* The nodes each specification operates on (the others stay as constructed).
TreeNodes == 1..NumTreeNodes
NestNodes == 1..NumNestNodes
LatchNodes == 1..NumLatchNodes
\* The nodes whose properties are assigned and read in the property
\* specifications; the other nodes serve them as parents and group roots.
SubjectNodes == 1..NumSubjectNodes
\* The values assigned to alpha (0: transparent).
AlphaValues == 0..MaxAlpha
\* The points assigned to position, scale, pivot and skew: the default values
\* (0, 0) and (1, 1) and points that differ from them in one coordinate only.
PointValues ==
    {p \in [x : 0..MaxCoord, y : 0..MaxCoord] : p.y <= p.x}
\* The default tint, line 454 (0xFFFFFF), and the colours assigned to tint:
\* white and red (0xFF0000).
White == 16777215
TintValues == {White, 255 * 65536}
\* The blend modes assigned.
BlendValues == {"inherit", "normal"}
\* The rotations assigned, in quarter turns, and the same angles in degrees.
RotationValues == 0..MaxTurns
AngleValues == {90 * q : q \in RotationValues}
Null == 0

VARIABLES
    parent,                      \* Container.parent
    children,                    \* Container.children
    renderGroup,                 \* Container.renderGroup (root node of the group, or Null)
    isRenderGroupRoot,           \* Container.isRenderGroupRoot
    didChange,                   \* Container.didChange
    didViewUpdate,               \* Container.didViewUpdate
    destroyed,                   \* Container.destroyed
    renderGroupParent,           \* RenderGroup.renderGroupParent, by group
    renderGroupChildren,         \* RenderGroup.renderGroupChildren, by group
    structureDidChange,          \* RenderGroup.structureDidChange, by group
    childrenToUpdate,            \* nodes reported through RenderGroup.onChildUpdate
    childrenRenderablesToUpdate, \* nodes reported through RenderGroup.onChildViewUpdate
    updateFlags,                 \* Container._updateFlags (4 bits)
    localVisibleRenderable,      \* Container.localVisibleRenderable (2 bits)
    localAlpha,                  \* Container.localAlpha
    localColor,                  \* Container.localColor (packed blue-green-red)
    localBlendMode,              \* Container.localBlendMode
    rgAlpha,                     \* Container.rgAlpha
    position,                    \* Container._position
    scale,                       \* Container._scale (own = FALSE: the shared defaultScale)
    pivot,                       \* Container._pivot (own = FALSE: the shared defaultPivot)
    skew,                        \* Container._skew (own = FALSE: the shared defaultSkew)
    rotation,                    \* Container._rotation, in quarter turns
    cx,                          \* Container._cx
    sx,                          \* Container._sx
    cy,                          \* Container._cy
    sy,                          \* Container._sy
    rgTransform,                 \* Container.rgTransform
    groupWorldTransform,         \* RenderGroup.worldTransform, by group
    worldTransform,              \* Container._worldTransform (NoMatrix: not allocated yet)
    groupObject,                 \* how many RenderGroup objects were built for the node
    destroyedEmits,              \* number of 'destroyed' events a node has emitted
    events,                      \* events emitted by the last public call, in order
    lastOp,                      \* the last public call: name, receiver, argument, outcome
    updRun,                      \* the current run of consecutive onUpdate calls
    viewRun                      \* the current run of consecutive onViewUpdate calls

vars == <<parent, children, renderGroup, isRenderGroupRoot, didChange, didViewUpdate,
          destroyed, renderGroupParent, renderGroupChildren, structureDidChange,
          childrenToUpdate, childrenRenderablesToUpdate, updateFlags,
          localVisibleRenderable, localAlpha, localColor, localBlendMode, rgAlpha,
          position, scale, pivot, skew, rotation, cx, sx, cy, sy,
          rgTransform, groupWorldTransform, worldTransform, groupObject,
          destroyedEmits, events, lastOp, updRun, viewRun>>

\* The program state as one record, threaded through the operations.
Cur ==
    [parent |-> parent, children |-> children, renderGroup |-> renderGroup,
     isRenderGroupRoot |-> isRenderGroupRoot, didChange |-> didChange,
     didViewUpdate |-> didViewUpdate, destroyed |-> destroyed,
     renderGroupParent |-> renderGroupParent,
     renderGroupChildren |-> renderGroupChildren,
     structureDidChange |-> structureDidChange,
     childrenToUpdate |-> childrenToUpdate,
     childrenRenderablesToUpdate |-> childrenRenderablesToUpdate,
     updateFlags |-> updateFlags,
     localVisibleRenderable |-> localVisibleRenderable,
     localAlpha |-> localAlpha, localColor |-> localColor,
     localBlendMode |-> localBlendMode, rgAlpha |-> rgAlpha,
     position |-> position, scale |-> scale, pivot |-> pivot, skew |-> skew,
     rotation |-> rotation, cx |-> cx, sx |-> sx, cy |-> cy, sy |-> sy,
     rgTransform |-> rgTransform,
     groupWorldTransform |-> groupWorldTransform,
     worldTransform |-> worldTransform, groupObject |-> groupObject,
     destroyedEmits |-> destroyedEmits, events |-> <<>>]

\* (s0 is evaluated once, as the single element of a set.)
Becomes(s0) == \E s \in {s0} :
    /\ parent' = s.parent
    /\ children' = s.children
    /\ renderGroup' = s.renderGroup
    /\ isRenderGroupRoot' = s.isRenderGroupRoot
    /\ didChange' = s.didChange
    /\ didViewUpdate' = s.didViewUpdate
    /\ destroyed' = s.destroyed
    /\ renderGroupParent' = s.renderGroupParent
    /\ renderGroupChildren' = s.renderGroupChildren
    /\ structureDidChange' = s.structureDidChange
    /\ childrenToUpdate' = s.childrenToUpdate
    /\ childrenRenderablesToUpdate' = s.childrenRenderablesToUpdate
    /\ updateFlags' = s.updateFlags
    /\ localVisibleRenderable' = s.localVisibleRenderable
    /\ localAlpha' = s.localAlpha
    /\ localColor' = s.localColor
    /\ localBlendMode' = s.localBlendMode
    /\ rgAlpha' = s.rgAlpha
    /\ position' = s.position
    /\ scale' = s.scale
    /\ pivot' = s.pivot
    /\ skew' = s.skew
    /\ rotation' = s.rotation
    /\ cx' = s.cx
    /\ sx' = s.sx
    /\ cy' = s.cy
    /\ sy' = s.sy
    /\ rgTransform' = s.rgTransform
    /\ groupWorldTransform' = s.groupWorldTransform
    /\ worldTransform' = s.worldTransform
    /\ groupObject' = s.groupObject
    /\ destroyedEmits' = s.destroyedEmits
    /\ events' = s.events

\* The fields of the program itself (everything but the observation variables).
prog == <<parent, children, renderGroup, isRenderGroupRoot, didChange, didViewUpdate,
          destroyed, renderGroupParent, renderGroupChildren, structureDidChange,
          childrenToUpdate, childrenRenderablesToUpdate, updateFlags,
          localVisibleRenderable, localAlpha, localColor, localBlendMode, rgAlpha,
          position, scale, pivot, skew, rotation, cx, sx, cy, sy,
          rgTransform, groupWorldTransform, worldTransform, groupObject>>

\* ------------------------------------------------------------ array helpers
\* Array.prototype.indexOf, 0-based, -1 when absent.
indexOf(seq, x) ==
    IF \E i \in 1..Len(seq) : seq[i] = x
    THEN (CHOOSE i \in 1..Len(seq) : seq[i] = x /\ \A j \in 1..(i - 1) : seq[j] # x) - 1
    ELSE -1

\* Array.prototype.splice(start, 1): a negative start counts from the end.
splice1(seq, start) ==
    LET at == IF start < 0 THEN (IF Len(seq) + start < 0 THEN 0 ELSE Len(seq) + start)
              ELSE start
    IN  IF at >= Len(seq) THEN seq
        ELSE SubSeq(seq, 1, at) \o SubSeq(seq, at + 2, Len(seq))

Range(seq) == {seq[i] : i \in 1..Len(seq)}

\* EventEmitter.emit: listeners run synchronously, so each event is kept with
\* what a listener sees at that moment: the child's parent, whether the
\* container the event is about (`of`) holds the child, and whether the child
\* is the last of its children.
emit(s, e) ==
    LET list == s.children[e.of]
    IN  [s EXCEPT !.events =
            Append(@, [ev |-> e.ev, on |-> e.on, child |-> e.child, of |-> e.of,
                       index |-> e.index,
                       parentThen |-> s.parent[e.child],
                       heldThen |-> e.child \in Range(list),
                       lastThen |-> IF Len(list) > 0 THEN list[Len(list)] = e.child
                                    ELSE FALSE])]

\* The category bits of _updateFlags, lines 60-63.
UPDATE_COLOR == 1
UPDATE_BLEND == 2
UPDATE_VISIBLE == 4
UPDATE_TRANSFORM == 8

\* flags | bit and flags & bit for a single category bit.
bitOr(flags, bit) == IF (flags \div bit) % 2 = 1 THEN flags ELSE flags + bit
bitAnd(flags, bit) == IF (flags \div bit) % 2 = 1 THEN bit ELSE 0

\* The shared default points of lines 32-34 (own = FALSE: not a point of the node).
defaultSkew == [own |-> FALSE, x |-> 0, y |-> 0]
defaultPivot == [own |-> FALSE, x |-> 0, y |-> 0]
defaultScale == [own |-> FALSE, x |-> 1, y |-> 1]

\* new ObservablePoint(this, x, y)
ObservablePoint(x, y) == [own |-> TRUE, x |-> x, y |-> y]

\* Nodes reachable from n through children lists (n included).
RECURSIVE Reach(_, _, _)
Reach(ch, frontier, seen) ==
    IF frontier \subseteq seen THEN seen
    ELSE Reach(ch, UNION {Range(ch[x]) : x \in frontier}, seen \cup frontier)

Subtree(ch, n) == Reach(ch, {n}, {})

\* -------------------------------------------------------------- matrices
\* Matrix is not among the source files.  A matrix stands here for the affine
\* map x |-> a*x + t over the integers modulo 3 (a in {1, 2}): composition is
\* associative, has an identity and does not commute, as for 2D affine maps.
IdentityMatrix == [a |-> 1, t |-> 0]

\* The value of _worldTransform before a matrix is allocated for it (line 765).
NoMatrix == [a |-> 0, t |-> 0]

\* The matrices the external transform pass writes.
MatrixValues == [a : {1, 2}, t : 0..MaxShift]

\* Matrix.appendFrom(a, b): the map that applies a first, then b (spec 4.1).
appendFrom(a, b) == [a |-> (b.a * a.a) % 3, t |-> (b.a * a.t + b.t) % 3]

\* ------------------------------------------------ RenderGroup (from spec.md)
\* A group stops listing a nested group (spec 4.4: the nested group "becomes a
\* child of the new group instead of the old one").
RG_removeRenderGroupChild(s, g, c) ==
    [s EXCEPT !.renderGroupChildren[g] =
                  IF indexOf(@, c) > -1 THEN splice1(@, indexOf(@, c)) ELSE @,
              !.renderGroupParent[c] = Null]

\* Register group c as a directly nested child of group g (spec 3, 4.4).
RG_addRenderGroupChild(s, g, c) ==
    LET s1 == IF s.renderGroupParent[c] # Null
              THEN RG_removeRenderGroupChild(s, s.renderGroupParent[c], c)
              ELSE s
    IN  [s1 EXCEPT !.renderGroupParent[c] = g,
                   !.renderGroupChildren[g] = Append(@, c)]

\* Propagate membership of group g to child and its subtree, stopping at nested
\* render-group roots, whose groups become nested children of g (spec 3, 4.2).
RECURSIVE RG_addChild(_, _, _)
RECURSIVE RG_addChildren(_, _, _, _)
RG_addChild(s, g, child) ==
    LET s1 == [s EXCEPT !.structureDidChange[g] = TRUE]
    IN  IF s1.renderGroup[child] = child
        THEN RG_addRenderGroupChild(s1, g, child)
        ELSE RG_addChildren([s1 EXCEPT !.renderGroup[child] = g], g,
                            s1.children[child], 1)

RG_addChildren(s, g, list, i) ==
    IF i > Len(list) THEN s
    ELSE RG_addChildren(RG_addChild(s, g, list[i]), g, list, i + 1)

\* Detach child and its subtree from group g; a nested root keeps its own group,
\* which stops being a nested child of g (spec 3, 4.2, 4.4).
RECURSIVE RG_removeChild(_, _, _)
RECURSIVE RG_removeChildren(_, _, _, _)
RG_removeChild(s, g, child) ==
    LET s1 == [s EXCEPT !.structureDidChange[g] = TRUE]
    IN  IF s1.renderGroup[child] = child
        THEN RG_removeRenderGroupChild(s1, g, child)
        ELSE [RG_removeChildren(s1, g, s1.children[child], 1)
                 EXCEPT !.renderGroup[child] = Null]

RG_removeChildren(s, g, list, i) ==
    IF i > Len(list) THEN s
    ELSE RG_removeChildren(RG_removeChild(s, g, list[i]), g, list, i + 1)

\* new RenderGroup(root): a fresh group with no parent group, which takes the
\* root's subtree as members (spec 3: renderGroup is non-null for every node
\* below a render-group root up to the next root).
RG_new(s, root) ==
    RG_addChildren([s EXCEPT !.renderGroupParent[root] = Null,
                             !.renderGroupChildren[root] = <<>>,
                             !.structureDidChange[root] = TRUE,
                             !.childrenToUpdate[root] = <<>>,
                             !.childrenRenderablesToUpdate[root] = <<>>],
                   root, s.children[root], 1)

\* RenderGroup.onChildUpdate / onChildViewUpdate: the group records the node.
RG_onChildUpdate(s, g, n) ==
    [s EXCEPT !.childrenToUpdate[g] = Append(@, n)]

RG_onChildViewUpdate(s, g, n) ==
    [s EXCEPT !.childrenRenderablesToUpdate[g] = Append(@, n)]

\* -------------------------------------------------------------- Container
\* removeChild reading the index for the events after the splice instead of
\* before it.
removeChild_indexAfter(s, this, child) ==
    LET index == indexOf(s.children[this], child)
        s1 == IF index > -1
              THEN LET t == [s EXCEPT !.children[this] = splice1(@, index)]
                   IN  IF t.renderGroup[this] # Null
                       THEN RG_removeChild(t, t.renderGroup[this], child)
                       ELSE t
              ELSE s
        s2 == [s1 EXCEPT !.parent[child] = Null]
        after == indexOf(s2.children[this], child)
        s3 == emit(s2, [ev |-> "childRemoved", on |-> this, child |-> child, of |-> this,
                        index |-> after])
    IN  emit(s3, [ev |-> "removed", on |-> child, child |-> child, of |-> this,
                  index |-> after])

\* Container.removeChild(child), lines 609-642 (one argument; with several the
\* method calls itself once per argument, in order).
removeChild(s, this, child) ==
    LET index == indexOf(s.children[this], child)
        s1 == IF index > -1
              THEN LET t == [s EXCEPT !.children[this] = splice1(@, index)]
                   IN  IF t.renderGroup[this] # Null
                       THEN RG_removeChild(t, t.renderGroup[this], child)
                       ELSE t
              ELSE s
        s2 == [s1 EXCEPT !.parent[child] = Null]
        s3 == emit(s2, [ev |-> "childRemoved", on |-> this, child |-> child, of |-> this,
                        index |-> index])
    IN  emit(s3, [ev |-> "removed", on |-> child, child |-> child, of |-> this,
                  index |-> index])

\* reorderChild with the child put first instead of last (unshift for push).
reorderChild_unshift(s, this, child) ==
    LET s1 == [s EXCEPT !.children[this] =
                   <<child>> \o splice1(@, indexOf(@, child))]
    IN  IF s1.renderGroup[this] # Null /\ ~s1.isRenderGroupRoot[this]
        THEN [s1 EXCEPT !.structureDidChange[s1.renderGroup[this]] = TRUE]
        ELSE s1

\* reorderChild flagging the group the node reports to: for a render-group
\* root the parent group of its own group.
reorderChild_flagParent(s, this, child) ==
    LET s1 == [s EXCEPT !.children[this] =
                   Append(splice1(@, indexOf(@, child)), child)]
        g == IF s1.renderGroup[this] # Null /\ s1.isRenderGroupRoot[this]
             THEN s1.renderGroupParent[s1.renderGroup[this]]
             ELSE s1.renderGroup[this]
    IN  IF g # Null THEN [s1 EXCEPT !.structureDidChange[g] = TRUE] ELSE s1

\* addChild when child.parent === this, lines 557-568: the child goes last.
reorderChild(s, this, child) ==
    LET s1 == [s EXCEPT !.children[this] =
                   Append(splice1(@, indexOf(@, child)), child)]
    IN  IF s1.renderGroup[this] # Null /\ ~s1.isRenderGroupRoot[this]
        THEN [s1 EXCEPT !.structureDidChange[s1.renderGroup[this]] = TRUE]
        ELSE s1

\* attachChild with the two latch assignments of lines 582-583 swapped.
attachChild_swapped(s, this, child) ==
    LET s1 == IF s.parent[child] # Null
              THEN removeChild(s, s.parent[child], child)
              ELSE s
        s2 == [s1 EXCEPT !.children[this] = Append(@, child),
                         !.parent[child] = this,
                         !.didChange[child] = FALSE,
                         !.didViewUpdate[child] = TRUE,
                         !.updateFlags[child] = 15]
        s3 == IF s2.renderGroup[this] # Null
              THEN RG_addChild(s2, s2.renderGroup[this], child)
              ELSE s2
        s4 == emit(s3, [ev |-> "childAdded", on |-> this, child |-> child, of |-> this,
                        index |-> Len(s3.children[this]) - 1])
    IN  emit(s4, [ev |-> "added", on |-> child, child |-> child, of |-> this,
                  index |-> Len(s3.children[this]) - 1])

\* attachChild without line 586: the category flags are left as they were.
attachChild_keepFlags(s, this, child) ==
    LET s1 == IF s.parent[child] # Null
              THEN removeChild(s, s.parent[child], child)
              ELSE s
        s2 == [s1 EXCEPT !.children[this] = Append(@, child),
                         !.parent[child] = this,
                         !.didChange[child] = TRUE]
        s3 == IF s2.renderGroup[this] # Null
              THEN RG_addChild(s2, s2.renderGroup[this], child)
              ELSE s2
        s4 == emit(s3, [ev |-> "childAdded", on |-> this, child |-> child, of |-> this,
                        index |-> Len(s3.children[this]) - 1])
    IN  emit(s4, [ev |-> "added", on |-> child, child |-> child, of |-> this,
                  index |-> Len(s3.children[this]) - 1])

\* addChild of a child of another parent or of none, lines 570-601.
attachChild(s, this, child) ==
    LET s1 == IF s.parent[child] # Null
              THEN removeChild(s, s.parent[child], child)
              ELSE s
        s2 == [s1 EXCEPT !.children[this] = Append(@, child),
                         !.parent[child] = this,
                         !.didChange[child] = TRUE,
                         !.didViewUpdate[child] = FALSE,
                         !.updateFlags[child] = 15]
        s3 == IF s2.renderGroup[this] # Null
              THEN RG_addChild(s2, s2.renderGroup[this], child)
              ELSE s2
        s4 == emit(s3, [ev |-> "childAdded", on |-> this, child |-> child, of |-> this,
                        index |-> Len(s3.children[this]) - 1])
    IN  emit(s4, [ev |-> "added", on |-> child, child |-> child, of |-> this,
                  index |-> Len(s3.children[this]) - 1])

\* Container.addChild(child), lines 537-602 (one argument; with several the
\* method calls itself once per argument, in order).
addChild(s, this, child) ==
    IF s.parent[child] = this
    THEN reorderChild(s, this, child)
    ELSE attachChild(s, this, child)

\* The target without the branch of lines 660-669: a root reports to its own group.
notifyTarget_own(s, this) == s.renderGroup[this]

\* The render group onUpdate reports to (Null: nobody), lines 660-673.
notifyTarget(s, this) ==
    IF s.isRenderGroupRoot[this]
    THEN s.renderGroupParent[s.renderGroup[this]]
    ELSE s.renderGroup[this]

\* Math.cos and Math.sin of an angle counted in quarter turns.
cos(q) == CASE q % 4 = 0 -> 1 [] q % 4 = 2 -> -1 [] OTHER -> 0
sin(q) == CASE q % 4 = 1 -> 1 [] q % 4 = 3 -> -1 [] OTHER -> 0

\* Container._updateSkew(), lines 926-935 (skew is counted in quarter turns too).
updateSkew(s, this) ==
    LET rot == s.rotation[this]
        skw == s.skew[this]
    IN  [s EXCEPT !.cx[this] = cos(rot + skw.y),
                  !.sx[this] = sin(rot + skw.y),
                  !.cy[this] = 0 - sin(rot - skw.x),
                  !.sy[this] = cos(rot - skw.x)]

\* The point onUpdate is given: the name of the field that holds it, or NoPoint
\* for a call without an argument.
NoPoint == "none"

\* onUpdate without the early return of line 657: every call notifies.
onUpdate_noLatch(s, this, point) ==
    LET s0 == IF point = "skew" THEN updateSkew(s, this) ELSE s
        s1 == [s0 EXCEPT !.didChange[this] = TRUE]
    IN  IF notifyTarget(s1, this) # Null
        THEN RG_onChildUpdate(s1, notifyTarget(s1, this), this)
        ELSE s1

\* onUpdate with the latch tested first: the basis scalars are recomputed only
\* by the call that sets didChange.
onUpdate_latchFirst(s, this, point) ==
    IF s.didChange[this] THEN s
    ELSE LET s0 == IF point = "skew" THEN updateSkew(s, this) ELSE s
             s1 == [s0 EXCEPT !.didChange[this] = TRUE]
         IN  IF notifyTarget(s1, this) # Null
             THEN RG_onChildUpdate(s1, notifyTarget(s1, this), this)
             ELSE s1

\* Container.onUpdate(point), lines 645-674: `point === this._skew` holds for
\* the point kept in the field skew (line 649, which would set the transform
\* bit, is a comment).
onUpdate(s, this, point) ==
    LET s0 == IF point = "skew" THEN updateSkew(s, this) ELSE s
    IN  IF s0.didChange[this] THEN s0
        ELSE LET s1 == [s0 EXCEPT !.didChange[this] = TRUE]
             IN  IF notifyTarget(s1, this) # Null
                 THEN RG_onChildUpdate(s1, notifyTarget(s1, this), this)
                 ELSE s1

\* onViewUpdate without the early return of line 679: every call notifies.
onViewUpdate_noLatch(s, this) ==
    LET s1 == [s EXCEPT !.didViewUpdate[this] = TRUE]
    IN  IF s1.renderGroup[this] # Null
        THEN RG_onChildViewUpdate(s1, s1.renderGroup[this], this)
        ELSE s1

\* Container.onViewUpdate(), lines 677-686.
onViewUpdate(s, this) ==
    IF s.didViewUpdate[this] THEN s
    ELSE LET s1 == [s EXCEPT !.didViewUpdate[this] = TRUE]
         IN  IF s1.renderGroup[this] # Null
             THEN RG_onChildViewUpdate(s1, s1.renderGroup[this], this)
             ELSE s1

\* The loop of enableRenderGroup, lines 730-745: index i runs over the old
\* group's nested-group list while the body may take entries out of that list.
RECURSIVE isUnder(_, _, _)
isUnder(s, node, this) ==
    IF node = Null THEN FALSE
    ELSE IF node = this THEN TRUE
    ELSE isUnder(s, s.parent[node], this)

RECURSIVE rehome(_, _, _, _)
rehome(s, this, parentRenderGroup, i) ==
    IF i >= Len(s.renderGroupChildren[parentRenderGroup]) THEN s
    ELSE LET childRenderGroup == s.renderGroupChildren[parentRenderGroup][i + 1]
         IN  rehome(IF isUnder(s, childRenderGroup, this)
                    THEN RG_addRenderGroupChild(s, s.renderGroup[this], childRenderGroup)
                    ELSE s,
                    this, parentRenderGroup, i + 1)

\* enableRenderGroup without line 747: the new group is not registered with
\* the group the node was a member of.
enableRenderGroup_unregistered(s, this) ==
    IF s.renderGroup[this] = this THEN s
    ELSE LET parentRenderGroup == s.renderGroup[this]
             s1 == [s EXCEPT !.isRenderGroupRoot[this] = TRUE]
             s2 == IF parentRenderGroup # Null
                   THEN RG_removeChild(s1, parentRenderGroup, this)
                   ELSE s1
             s3 == [RG_new(s2, this) EXCEPT !.renderGroup[this] = this,
                                            !.groupObject[this] = @ + 1]
         IN  IF parentRenderGroup # Null
             THEN rehome(s3, this, parentRenderGroup, 0)
             ELSE s3

\* enableRenderGroup without the early return of line 714: a node that owns a
\* group gets a new one.
enableRenderGroup_rebuild(s, this) ==
    LET parentRenderGroup == s.renderGroup[this]
        s1 == [s EXCEPT !.isRenderGroupRoot[this] = TRUE]
        s2 == IF parentRenderGroup # Null
              THEN RG_removeChild(s1, parentRenderGroup, this)
              ELSE s1
        s3 == [RG_new(s2, this) EXCEPT !.renderGroup[this] = this,
                                       !.groupObject[this] = @ + 1]
    IN  IF parentRenderGroup # Null /\ parentRenderGroup # this
        THEN RG_addRenderGroupChild(rehome(s3, this, parentRenderGroup, 0),
                                    parentRenderGroup, this)
        ELSE s3

\* Container.enableRenderGroup(), lines 711-751.
enableRenderGroup(s, this) ==
    IF s.renderGroup[this] = this THEN s
    ELSE LET parentRenderGroup == s.renderGroup[this]
             s1 == [s EXCEPT !.isRenderGroupRoot[this] = TRUE]
             s2 == IF parentRenderGroup # Null
                   THEN RG_removeChild(s1, parentRenderGroup, this)
                   ELSE s1
             s3 == [RG_new(s2, this) EXCEPT !.renderGroup[this] = this,
                                            !.groupObject[this] = @ + 1]
         IN  IF parentRenderGroup # Null
             THEN RG_addRenderGroupChild(rehome(s3, this, parentRenderGroup, 0),
                                         parentRenderGroup, this)
             ELSE s3

\* removeFromParent() of the children helper mixin (spec 3: destroy "severs
\* parent link").
removeFromParent(s, this) ==
    IF s.parent[this] # Null THEN removeChild(s, s.parent[this], this) ELSE s

\* removeChildren(0, length) of the children helper mixin (spec 4.2: "removes
\* all children from this node first (detaching them from the tree)").
RECURSIVE detachAll(_, _, _, _)
detachAll(s, this, list, i) ==
    IF i > Len(list) THEN s
    ELSE LET c == list[i]
             s1 == IF s.renderGroup[this] # Null
                   THEN RG_removeChild(s, s.renderGroup[this], c)
                   ELSE s
         IN  detachAll([s1 EXCEPT !.parent[c] = Null], this, list, i + 1)

removeChildren(s, this) ==
    [detachAll(s, this, s.children[this], 1) EXCEPT !.children[this] = <<>>]

\* Container.destroy(options), lines 1080-1121; destroyChildren is options.children.
RECURSIVE destroy(_, _, _)
RECURSIVE destroyEach(_, _, _, _)
\* destroy looping over this.children after removeChildren has emptied it,
\* instead of over the removed children (line 1106).
destroy_liveList(s, this, destroyChildren) ==
    IF s.destroyed[this] THEN s
    ELSE LET s1 == [s EXCEPT !.destroyed[this] = TRUE]
             s2 == [removeFromParent(s1, this) EXCEPT !.parent[this] = Null]
             s3 == emit([s2 EXCEPT !.destroyedEmits[this] = @ + 1],
                        [ev |-> "destroyed", on |-> this, child |-> this, of |-> this,
                         index |-> -1])
             s4 == removeChildren(s3, this)
         IN  IF destroyChildren
             THEN destroyEach(s4, s4.children[this], destroyChildren, 1)
             ELSE s4

\* destroy without the test of line 1108: the removed children are destroyed
\* whatever the option says.
destroy_alwaysChildren(s, this, destroyChildren) ==
    IF s.destroyed[this] THEN s
    ELSE LET s1 == [s EXCEPT !.destroyed[this] = TRUE]
             s2 == [removeFromParent(s1, this) EXCEPT !.parent[this] = Null]
             s3 == emit([s2 EXCEPT !.destroyedEmits[this] = @ + 1],
                        [ev |-> "destroyed", on |-> this, child |-> this, of |-> this,
                         index |-> -1])
             oldChildren == s3.children[this]
             s4 == removeChildren(s3, this)
         IN  destroyEach(s4, oldChildren, destroyChildren, 1)

destroy(s, this, destroyChildren) ==
    IF s.destroyed[this] THEN s
    ELSE LET s1 == [s EXCEPT !.destroyed[this] = TRUE]
             s2 == [removeFromParent(s1, this) EXCEPT !.parent[this] = Null]
             s3 == emit([s2 EXCEPT !.destroyedEmits[this] = @ + 1],
                        [ev |-> "destroyed", on |-> this, child |-> this, of |-> this,
                         index |-> -1])
             oldChildren == s3.children[this]
             s4 == removeChildren(s3, this)
         IN  IF destroyChildren THEN destroyEach(s4, oldChildren, destroyChildren, 1)
             ELSE s4

destroyEach(s, list, destroyChildren, i) ==
    IF i > Len(list) THEN s
    ELSE destroyEach(destroy(s, list[i], destroyChildren), list, destroyChildren, i + 1)

\* "isRenderGroup = value", lines 688-699: TRUE when the setter throws.
isRenderGroupThrows(s, this, value) ==
    s.isRenderGroupRoot[this] /\ value = FALSE

\* The setter without the check of line 690, undoing the render group instead.
set_isRenderGroup_demote(s, this, value) ==
    IF value THEN enableRenderGroup(s, this)
    ELSE [s EXCEPT !.isRenderGroupRoot[this] = FALSE]

set_isRenderGroup(s, this, value) ==
    IF isRenderGroupThrows(s, this, value) THEN s
    ELSE IF value THEN enableRenderGroup(s, this)
    ELSE s

\* ObservablePoint.copyFrom(value) on the point held in `field` (ObservablePoint
\* is not among the source files; spec 3: an observable 2-vector that notifies
\* the node on mutation): a copy that changes a coordinate stores the value and
\* notifies the observer.  The notification is onUpdate(point).
point_copyFrom(s, this, field, value) ==
    IF s[field][this].x # value.x \/ s[field][this].y # value.y
    THEN onUpdate([s EXCEPT ![field][this].x = value.x,
                            ![field][this].y = value.y], this, field)
    ELSE s

\* "set position", lines 821-824.
set_position(s, this, value) == point_copyFrom(s, this, "position", value)

\* "set rotation", lines 835-842: the call is onUpdate(this._skew).
set_rotation(s, this, value) ==
    IF s.rotation[this] # value
    THEN onUpdate([s EXCEPT !.rotation[this] = value], this, "skew")
    ELSE s

\* value * DEG_TO_RAD, with the rotation counted in quarter turns.
degToRad(value) == value \div 90

\* "set angle", lines 853-856.
set_angle(s, this, value) == set_rotation(s, this, degToRad(value))

\* "get pivot", lines 865-873, and "set pivot", lines 875-883.
get_pivot(s, this) ==
    IF s.pivot[this] = defaultPivot
    THEN [s EXCEPT !.pivot[this] = ObservablePoint(0, 0)]
    ELSE s

set_pivot(s, this, value) ==
    LET s1 == IF s.pivot[this] = defaultPivot
              THEN [s EXCEPT !.pivot[this] = ObservablePoint(0, 0)]
              ELSE s
    IN  point_copyFrom(s1, this, "pivot", value)

\* "get skew", lines 889-897.
get_skew(s, this) ==
    IF s.skew[this] = defaultSkew
    THEN [s EXCEPT !.skew[this] = ObservablePoint(0, 0)]
    ELSE s

\* "get scale", lines 905-913, and "set scale", lines 915-923.
get_scale(s, this) ==
    IF s.scale[this] = defaultScale
    THEN [s EXCEPT !.scale[this] = ObservablePoint(1, 1)]
    ELSE s

set_scale(s, this, value) ==
    LET s1 == IF s.scale[this] = defaultScale
              THEN [s EXCEPT !.scale[this] = ObservablePoint(0, 0)]
              ELSE s
    IN  point_copyFrom(s1, this, "scale", value)

\* "get worldTransform" composing for a root as for a member (without the
\* branch of lines 769-772).
get_worldTransform_append(s, this) ==
    LET s1 == IF s.worldTransform[this] = NoMatrix
              THEN [s EXCEPT !.worldTransform[this] = IdentityMatrix]
              ELSE s
    IN  IF s1.renderGroup[this] # Null
        THEN [s1 EXCEPT !.worldTransform[this] =
                 appendFrom(s1.rgTransform[this],
                            s1.groupWorldTransform[s1.renderGroup[this]])]
        ELSE s1

\* "get worldTransform", lines 763-780; the value returned is the node's
\* _worldTransform after the call.
get_worldTransform(s, this) ==
    LET s1 == IF s.worldTransform[this] = NoMatrix
              THEN [s EXCEPT !.worldTransform[this] = IdentityMatrix]
              ELSE s
    IN  IF s1.renderGroup[this] # Null
        THEN IF s1.isRenderGroupRoot[this]
             THEN [s1 EXCEPT !.worldTransform[this] =
                      s1.groupWorldTransform[s1.renderGroup[this]]]
             ELSE [s1 EXCEPT !.worldTransform[this] =
                      appendFrom(s1.rgTransform[this],
                                 s1.groupWorldTransform[s1.renderGroup[this]])]
        ELSE s1

\* The external transform pass over group g, as far as the matrices read by
\* node n go (spec 4.1, 6): it writes the group's worldTransform and the
\* rgTransform of n; the values depend on the whole scene and are inputs here.
transformPass(s, g, W, n, R) ==
    [s EXCEPT !.groupWorldTransform[g] = W,
              !.rgTransform[n] = R]

\* "set alpha", lines 939-948.
set_alpha(s, this, value) ==
    IF value = s.localAlpha[this] THEN s
    ELSE onUpdate([s EXCEPT !.localAlpha[this] = value,
                            !.updateFlags[this] = bitOr(@, UPDATE_COLOR)],
                  this, NoPoint)

\* Color.toBgrNumber() of a 24-bit colour (Color is not among the source
\* files; spec 3: "packed reversed-byte-order RGB"): red and blue change places.
toBgrNumber(rgb) ==
    (rgb % 256) * 65536 + ((rgb \div 256) % 256) * 256 + (rgb \div 65536)

\* "set tint", lines 956-968.
set_tint(s, this, value) ==
    LET bgr == toBgrNumber(value)
    IN  IF bgr = s.localColor[this] THEN s
        ELSE onUpdate([s EXCEPT !.localColor[this] = bgr,
                                !.updateFlags[this] = bitOr(@, UPDATE_COLOR)],
                      this, NoPoint)

\* "set blendMode", lines 986-999.
set_blendMode(s, this, value) ==
    IF s.localBlendMode[this] = value THEN s
    ELSE LET s1 == IF s.renderGroup[this] # Null /\ ~s.isRenderGroupRoot[this]
                   THEN [s EXCEPT !.structureDidChange[s.renderGroup[this]] = TRUE]
                   ELSE s
         IN  onUpdate([s1 EXCEPT !.updateFlags[this] = bitOr(@, UPDATE_BLEND),
                                 !.localBlendMode[this] = value],
                      this, NoPoint)

\* "get visible", lines 1013-1016, and "get renderable", lines 1037-1040.
get_visible(s, this) == bitAnd(s.localVisibleRenderable[this], 2) # 0

get_renderable(s, this) == bitAnd(s.localVisibleRenderable[this], 1) # 0

\* "set visible" writing the whole packed field (valueNumber << 1, without the
\* `& 0b01` of line 1031).
set_visible_clobber(s, this, value) ==
    LET valueNumber == IF value THEN 1 ELSE 0
    IN  IF bitAnd(s.localVisibleRenderable[this], 2) \div 2 = valueNumber THEN s
        ELSE LET s1 == IF s.renderGroup[this] # Null /\ ~s.isRenderGroupRoot[this]
                       THEN [s EXCEPT !.structureDidChange[s.renderGroup[this]] = TRUE]
                       ELSE s
             IN  onUpdate([s1 EXCEPT !.updateFlags[this] = bitOr(@, UPDATE_VISIBLE),
                                     !.localVisibleRenderable[this] = valueNumber * 2],
                          this, NoPoint)

\* "set visible", lines 1018-1034: (packed & 0b01) | (valueNumber << 1).
set_visible(s, this, value) ==
    LET valueNumber == IF value THEN 1 ELSE 0
    IN  IF bitAnd(s.localVisibleRenderable[this], 2) \div 2 = valueNumber THEN s
        ELSE LET s1 == IF s.renderGroup[this] # Null /\ ~s.isRenderGroupRoot[this]
                       THEN [s EXCEPT !.structureDidChange[s.renderGroup[this]] = TRUE]
                       ELSE s
             IN  onUpdate([s1 EXCEPT !.updateFlags[this] = bitOr(@, UPDATE_VISIBLE),
                                     !.localVisibleRenderable[this] =
                                         bitAnd(@, 1) + valueNumber * 2],
                          this, NoPoint)

\* "set renderable", lines 1042-1058: (packed & 0b10) | valueNumber.
set_renderable(s, this, value) ==
    LET valueNumber == IF value THEN 1 ELSE 0
    IN  IF bitAnd(s.localVisibleRenderable[this], 1) = valueNumber THEN s
        ELSE LET s1 == [s EXCEPT !.localVisibleRenderable[this] =
                                     bitAnd(@, 2) + valueNumber,
                                 !.updateFlags[this] = bitOr(@, UPDATE_VISIBLE)]
                 s2 == IF s1.renderGroup[this] # Null /\ ~s1.isRenderGroupRoot[this]
                       THEN [s1 EXCEPT !.structureDidChange[s1.renderGroup[this]] = TRUE]
                       ELSE s1
             IN  onUpdate(s2, this, NoPoint)

\* isRenderable taking a combined alpha of 0 as drawable (>= for > in line 1063).
isRenderable_zeroAlpha(s, this) ==
    s.localVisibleRenderable[this] = 3 /\ s.rgAlpha[this] >= 0

\* "get isRenderable", lines 1061-1064.
isRenderable(s, this) ==
    s.localVisibleRenderable[this] = 3 /\ s.rgAlpha[this] > 0

\* The combined alpha of a node governed by a group (spec 3): the product of
\* the local alphas from the node up to, not including, the root of its group.
RECURSIVE combinedAlpha(_, _)
combinedAlpha(s, n) ==
    IF s.isRenderGroupRoot[n] \/ s.parent[n] = Null
           \/ s.renderGroup[s.parent[n]] # s.renderGroup[n]
           \/ s.isRenderGroupRoot[s.parent[n]]
    THEN s.localAlpha[n]
    ELSE s.localAlpha[n] * combinedAlpha(s, s.parent[n])

\* The external transform / paint pass over one render group (spec 6): it
\* consumes the group's reports, clears the latches and the category flags of
\* the nodes the group is told about, recomputes the combined alpha of the
\* nodes it governs, and clears the group's structural flag.
clearPass(s, g) ==
    [s EXCEPT !.didChange = [n \in Nodes |->
                                IF notifyTarget(s, n) = g THEN FALSE ELSE @[n]],
              !.didViewUpdate = [n \in Nodes |->
                                    IF s.renderGroup[n] = g THEN FALSE ELSE @[n]],
              !.updateFlags = [n \in Nodes |->
                                  IF notifyTarget(s, n) = g \/ s.renderGroup[n] = g
                                  THEN 0 ELSE @[n]],
              !.rgAlpha = [n \in Nodes |->
                              IF s.renderGroup[n] = g THEN combinedAlpha(s, n)
                              ELSE @[n]],
              !.childrenToUpdate[g] = <<>>,
              !.childrenRenderablesToUpdate[g] = <<>>,
              !.structureDidChange[g] = FALSE]

\* ------------------------------------------------------------------ actions
\* Number of reports held by the groups 1..n together.
RECURSIVE Reports(_, _)
Reports(q, n) == IF n = 0 THEN 0 ELSE Len(q[n]) + Reports(q, n - 1)

NoRun == [node |-> Null, calls |-> 0, notes |-> 0, hadTarget |-> FALSE]

Op(name, n, c, tag) ==
    [op |-> name, n |-> n, c |-> c, tag |-> tag,
     index |-> IF n # Null /\ c # Null THEN indexOf(children[n], c) ELSE -1,
     kids |-> IF name \in {"destroy", "destroy(children)"} THEN children[n] ELSE <<>>]

Init ==
    /\ parent = [n \in Nodes |-> Null]
    /\ children = [n \in Nodes |-> <<>>]
    /\ renderGroup = [n \in Nodes |-> Null]
    /\ isRenderGroupRoot = [n \in Nodes |-> FALSE]
    /\ didChange = [n \in Nodes |-> FALSE]
    /\ didViewUpdate = [n \in Nodes |-> FALSE]
    /\ destroyed = [n \in Nodes |-> FALSE]
    /\ renderGroupParent = [n \in Nodes |-> Null]
    /\ renderGroupChildren = [n \in Nodes |-> <<>>]
    /\ structureDidChange = [n \in Nodes |-> FALSE]
    /\ childrenToUpdate = [n \in Nodes |-> <<>>]
    /\ childrenRenderablesToUpdate = [n \in Nodes |-> <<>>]
    /\ updateFlags = [n \in Nodes |-> 15]
    /\ localVisibleRenderable = [n \in Nodes |-> 3]
    /\ localAlpha = [n \in Nodes |-> 1]
    /\ localColor = [n \in Nodes |-> White]
    /\ localBlendMode = [n \in Nodes |-> "inherit"]
    /\ rgAlpha = [n \in Nodes |-> 1]
    /\ position = [n \in Nodes |-> [own |-> TRUE, x |-> 0, y |-> 0]]
    /\ scale = [n \in Nodes |-> defaultScale]
    /\ pivot = [n \in Nodes |-> defaultPivot]
    /\ skew = [n \in Nodes |-> defaultSkew]
    /\ rotation = [n \in Nodes |-> 0]
    /\ cx = [n \in Nodes |-> 1]
    /\ sx = [n \in Nodes |-> 0]
    /\ cy = [n \in Nodes |-> 0]
    /\ sy = [n \in Nodes |-> 1]
    /\ rgTransform = [n \in Nodes |-> IdentityMatrix]
    /\ groupWorldTransform = [n \in Nodes |-> IdentityMatrix]
    /\ worldTransform = [n \in Nodes |-> NoMatrix]
    /\ groupObject = [n \in Nodes |-> 0]
    /\ destroyedEmits = [n \in Nodes |-> 0]
    /\ events = <<>>
    /\ lastOp = Op("init", Null, Null, "none")
    /\ updRun = NoRun
    /\ viewRun = NoRun

\* this.addChild(child).  Adding a node to itself or below one of its own
\* descendants is left undefined by the design (spec 4.2, 9) and calls on
\* destroyed nodes are a precondition violation (spec 7): neither is issued.
AddChild(this, child) ==
    /\ this # child
    /\ ~destroyed[this] /\ ~destroyed[child]
    /\ this \notin Subtree(children, child)
    /\ IF parent[child] = this THEN TRUE ELSE Len(children[this]) < MaxChildren
    /\ Becomes(addChild(Cur, this, child))
    /\ lastOp' = Op("addChild", this, child,
                    IF parent[child] = this THEN "reorder"
                    ELSE IF parent[child] # Null THEN "move" ELSE "attach")
    /\ updRun' = NoRun
    /\ viewRun' = NoRun

\* this.removeChild(child).
RemoveChild(this, child) ==
    /\ this # child
    /\ ~destroyed[this] /\ ~destroyed[child]
    /\ Becomes(removeChild(Cur, this, child))
    /\ lastOp' = Op("removeChild", this, child,
                    IF indexOf(children[this], child) > -1 THEN "found" ELSE "absent")
    /\ updRun' = NoRun
    /\ viewRun' = NoRun

\* this.onUpdate(), called directly.
OnUpdate(this) ==
    /\ ~destroyed[this]
    /\ ~(updRun.node = this /\ updRun.calls >= MaxCalls)
    /\ Becomes(onUpdate(Cur, this, NoPoint))
    /\ lastOp' = Op("onUpdate", this, Null, IF didChange[this] THEN "latched" ELSE "set")
    /\ LET told == Reports(onUpdate(Cur, this, NoPoint).childrenToUpdate, NumNodes)
                   - Reports(childrenToUpdate, NumNodes)
       IN  updRun' = IF updRun.node = this
                     THEN [updRun EXCEPT !.calls = @ + 1, !.notes = @ + told]
                     ELSE IF ~didChange[this]
                     THEN [node |-> this, calls |-> 1, notes |-> told,
                           hadTarget |-> notifyTarget(Cur, this) # Null]
                     ELSE NoRun
    /\ viewRun' = NoRun

\* this.onViewUpdate().
OnViewUpdate(this) ==
    /\ ~destroyed[this]
    /\ IF didViewUpdate[this] \/ renderGroup[this] = Null THEN TRUE
       ELSE Len(childrenRenderablesToUpdate[renderGroup[this]]) < MaxQueue
    /\ ~(viewRun.node = this /\ viewRun.calls >= MaxCalls)
    /\ Becomes(onViewUpdate(Cur, this))
    /\ lastOp' = Op("onViewUpdate", this, Null,
                    IF didViewUpdate[this] THEN "latched" ELSE "set")
    /\ updRun' = NoRun
    /\ LET told == Reports(onViewUpdate(Cur, this).childrenRenderablesToUpdate, NumNodes)
                   - Reports(childrenRenderablesToUpdate, NumNodes)
       IN  viewRun' = IF viewRun.node = this
                      THEN [viewRun EXCEPT !.calls = @ + 1, !.notes = @ + told]
                      ELSE IF ~didViewUpdate[this]
                      THEN [node |-> this, calls |-> 1, notes |-> told,
                            hadTarget |-> renderGroup[this] # Null]
                      ELSE NoRun

\* this.enableRenderGroup().
EnableRenderGroup(this) ==
    /\ ~destroyed[this]
    /\ Becomes(enableRenderGroup(Cur, this))
    /\ lastOp' = Op("enableRenderGroup", this, Null,
                    IF renderGroup[this] = this THEN "owned"
                    ELSE IF renderGroup[this] # Null THEN "member" ELSE "free")
    /\ updRun' = NoRun
    /\ viewRun' = NoRun

\* this.isRenderGroup = value.
SetIsRenderGroup(this, value) ==
    /\ ~destroyed[this]
    /\ Becomes(set_isRenderGroup(Cur, this, value))
    /\ lastOp' = Op(IF value THEN "isRenderGroup=true" ELSE "isRenderGroup=false",
                    this, Null,
                    IF isRenderGroupThrows(Cur, this, value) THEN "error" ELSE "ok")
    /\ updRun' = NoRun
    /\ viewRun' = NoRun

\* this.destroy(options).
Destroy(this, destroyChildren) ==
    /\ Becomes(destroy(Cur, this, destroyChildren))
    /\ lastOp' = Op(IF destroyChildren THEN "destroy(children)" ELSE "destroy",
                    this, Null, IF destroyed[this] THEN "again" ELSE "first")
    /\ updRun' = NoRun
    /\ viewRun' = NoRun

\* The external update pass over group g.
ClearPass(g) ==
    /\ renderGroup[g] = g
    /\ Becomes(clearPass(Cur, g))
    /\ lastOp' = Op("clearPass", g, Null, "none")
    /\ updRun' = NoRun
    /\ viewRun' = NoRun

\* this.alpha = value.
SetAlpha(this, value) ==
    /\ ~destroyed[this]
    /\ Becomes(set_alpha(Cur, this, value))
    /\ lastOp' = Op("alpha", this, Null,
                    IF value = localAlpha[this] THEN "same" ELSE "changed")
    /\ updRun' = NoRun
    /\ viewRun' = NoRun

\* this.tint = value.
SetTint(this, value) ==
    /\ ~destroyed[this]
    /\ Becomes(set_tint(Cur, this, value))
    /\ lastOp' = Op("tint", this, Null,
                    IF toBgrNumber(value) = localColor[this] THEN "same" ELSE "changed")
    /\ updRun' = NoRun
    /\ viewRun' = NoRun

\* this.blendMode = value.
SetBlendMode(this, value) ==
    /\ ~destroyed[this]
    /\ Becomes(set_blendMode(Cur, this, value))
    /\ lastOp' = Op("blendMode", this, Null,
                    IF localBlendMode[this] = value THEN "same" ELSE "changed")
    /\ updRun' = NoRun
    /\ viewRun' = NoRun

\* this.visible = value.
SetVisible(this, value) ==
    /\ ~destroyed[this]
    /\ Becomes(set_visible(Cur, this, value))
    /\ lastOp' = Op(IF value THEN "visible=true" ELSE "visible=false", this, Null,
                    IF get_visible(Cur, this) = value THEN "same" ELSE "changed")
    /\ updRun' = NoRun
    /\ viewRun' = NoRun

\* this.renderable = value.
SetRenderable(this, value) ==
    /\ ~destroyed[this]
    /\ Becomes(set_renderable(Cur, this, value))
    /\ lastOp' = Op(IF value THEN "renderable=true" ELSE "renderable=false", this, Null,
                    IF get_renderable(Cur, this) = value THEN "same" ELSE "changed")
    /\ updRun' = NoRun
    /\ viewRun' = NoRun

\* The outcome of an assignment: did the value read before differ from it?
Assigned(old, value) ==
    IF old.x # value.x \/ old.y # value.y THEN "changed" ELSE "same"

\* this.position = value.
SetPosition(this, value) ==
    /\ ~destroyed[this]
    /\ Becomes(set_position(Cur, this, value))
    /\ lastOp' = Op("position", this, Null, Assigned(position[this], value))
    /\ updRun' = NoRun
    /\ viewRun' = NoRun

\* this.scale = value.
SetScale(this, value) ==
    /\ ~destroyed[this]
    /\ Becomes(set_scale(Cur, this, value))
    /\ lastOp' = Op("scale", this, Null, Assigned(scale[this], value))
    /\ updRun' = NoRun
    /\ viewRun' = NoRun

\* this.scale.copyFrom(value): the point is reached through the getter.
ScaleCopyFrom(this, value) ==
    /\ ~destroyed[this]
    /\ Becomes(point_copyFrom(get_scale(Cur, this), this, "scale", value))
    /\ lastOp' = Op("scale.copyFrom", this, Null, Assigned(scale[this], value))
    /\ updRun' = NoRun
    /\ viewRun' = NoRun

\* this.pivot = value.
SetPivot(this, value) ==
    /\ ~destroyed[this]
    /\ Becomes(set_pivot(Cur, this, value))
    /\ lastOp' = Op("pivot", this, Null, Assigned(pivot[this], value))
    /\ updRun' = NoRun
    /\ viewRun' = NoRun

\* this.skew.copyFrom(value): skew has a getter only.
SkewCopyFrom(this, value) ==
    /\ ~destroyed[this]
    /\ Becomes(point_copyFrom(get_skew(Cur, this), this, "skew", value))
    /\ lastOp' = Op("skew.copyFrom", this, Null, Assigned(skew[this], value))
    /\ updRun' = NoRun
    /\ viewRun' = NoRun

\* this.rotation = value.
SetRotation(this, value) ==
    /\ ~destroyed[this]
    /\ Becomes(set_rotation(Cur, this, value))
    /\ lastOp' = Op("rotation", this, Null,
                    IF rotation[this] # value THEN "changed" ELSE "same")
    /\ updRun' = NoRun
    /\ viewRun' = NoRun

\* this.angle = value.
SetAngle(this, value) ==
    /\ ~destroyed[this]
    /\ Becomes(set_angle(Cur, this, value))
    /\ lastOp' = Op("angle", this, Null,
                    IF 90 * rotation[this] # value THEN "changed" ELSE "same")
    /\ updRun' = NoRun
    /\ viewRun' = NoRun

\* A read of this.worldTransform.
ReadWorldTransform(this) ==
    /\ ~destroyed[this]
    /\ Becomes(get_worldTransform(Cur, this))
    /\ lastOp' = Op("worldTransform", this, Null,
                    IF renderGroup[this] = Null THEN "none"
                    ELSE IF isRenderGroupRoot[this] THEN "root" ELSE "member")
    /\ updRun' = NoRun
    /\ viewRun' = NoRun

\* The external transform pass over group g, which governs node n or is told
\* about it, writes matrices.
TransformPass(g, W, n, R) ==
    /\ renderGroup[g] = g
    /\ renderGroup[n] = g \/ notifyTarget(Cur, n) = g
    /\ Becomes(transformPass(Cur, g, W, n, R))
    /\ lastOp' = Op("transformPass", g, Null, "none")
    /\ updRun' = NoRun
    /\ viewRun' = NoRun

\* The tree and render-group operations, on the nodes TreeNodes.
Next ==
    \/ \E this \in TreeNodes, child \in TreeNodes : AddChild(this, child)
    \/ \E this \in TreeNodes, child \in TreeNodes : RemoveChild(this, child)
    \/ \E this \in TreeNodes : EnableRenderGroup(this)
    \/ \E this \in TreeNodes, value \in BOOLEAN : SetIsRenderGroup(this, value)
    \/ \E this \in TreeNodes, destroyChildren \in BOOLEAN : Destroy(this, destroyChildren)

Spec == Init /\ [][Next]_vars

\* Building and rearranging trees and nesting render groups, on the nodes
\* NestNodes (enough of them for two nested groups below a member of a group).
NextNest ==
    \/ \E this \in NestNodes, child \in NestNodes : AddChild(this, child)
    \/ \E this \in NestNodes : EnableRenderGroup(this)

SpecNest == Init /\ [][NextNest]_vars

\* Every operation, the dirty latches and the external pass included, on the
\* nodes LatchNodes.
NextLatch ==
    \/ \E this \in LatchNodes, child \in LatchNodes : AddChild(this, child)
    \/ \E this \in LatchNodes, child \in LatchNodes : RemoveChild(this, child)
    \/ \E this \in LatchNodes : OnUpdate(this)
    \/ \E this \in LatchNodes : OnViewUpdate(this)
    \/ \E this \in LatchNodes : EnableRenderGroup(this)
    \/ \E this \in LatchNodes, value \in BOOLEAN : SetIsRenderGroup(this, value)
    \/ \E this \in LatchNodes, destroyChildren \in BOOLEAN : Destroy(this, destroyChildren)
    \/ \E g \in LatchNodes : ClearPass(g)

SpecLatch == Init /\ [][NextLatch]_vars

\* Visibility, alpha, tint and blend mode of the nodes SubjectNodes, assigned
\* while these nodes are free, members or roots of groups among LatchNodes,
\* with the external pass.
NextVisible ==
    \/ \E this \in LatchNodes, child \in LatchNodes : AddChild(this, child)
    \/ \E this \in LatchNodes : EnableRenderGroup(this)
    \/ \E this \in SubjectNodes, value \in AlphaValues : SetAlpha(this, value)
    \/ \E this \in SubjectNodes, value \in TintValues : SetTint(this, value)
    \/ \E this \in SubjectNodes, value \in BlendValues : SetBlendMode(this, value)
    \/ \E this \in SubjectNodes, value \in BOOLEAN : SetVisible(this, value)
    \/ \E this \in SubjectNodes, value \in BOOLEAN : SetRenderable(this, value)
    \/ \E g \in LatchNodes : ClearPass(g)

SpecVisible == Init /\ [][NextVisible]_vars

\* The transform inputs of the nodes SubjectNodes, assigned while these nodes
\* are free, members or roots of groups among LatchNodes, with the external pass.
\* Children are added to nodes of a higher number only, so that the nodes
\* SubjectNodes are the ones that get a parent and a group to report to.
NextTransform ==
    \/ \E this \in LatchNodes : \E child \in 1..(this - 1) : AddChild(this, child)
    \/ \E this \in LatchNodes : EnableRenderGroup(this)
    \/ \E this \in SubjectNodes, value \in PointValues : SetPosition(this, value)
    \/ \E this \in SubjectNodes, value \in PointValues : SetScale(this, value)
    \/ \E this \in SubjectNodes, value \in PointValues : ScaleCopyFrom(this, value)
    \/ \E this \in SubjectNodes, value \in PointValues : SetPivot(this, value)
    \/ \E this \in SubjectNodes, value \in PointValues : SkewCopyFrom(this, value)
    \/ \E this \in SubjectNodes, value \in RotationValues : SetRotation(this, value)
    \/ \E this \in SubjectNodes, value \in AngleValues : SetAngle(this, value)
    \/ \E g \in LatchNodes : ClearPass(g)

SpecTransform == Init /\ [][NextTransform]_vars

\* Reads of worldTransform on the nodes SubjectNodes while they are free,
\* members or roots of groups among LatchNodes, between writes of the external
\* transform pass and assignments to their own position.
NextWorld ==
    \/ \E this \in LatchNodes, child \in LatchNodes : AddChild(this, child)
    \/ \E this \in LatchNodes, child \in LatchNodes : RemoveChild(this, child)
    \/ \E this \in LatchNodes : EnableRenderGroup(this)
    \/ \E this \in SubjectNodes, value \in PointValues : SetPosition(this, value)
    \/ \E g \in LatchNodes, W \in MatrixValues, n \in SubjectNodes, R \in MatrixValues :
          TransformPass(g, W, n, R)
    \/ \E this \in SubjectNodes : ReadWorldTransform(this)

SpecWorld == Init /\ [][NextWorld]_vars

\* Reorders and assignments to visible, renderable and blendMode of the nodes
\* SubjectNodes, in trees of the nodes TreeNodes (enough of them for a root
\* nested in another group with a child of its own), with the external pass.
\* Children are added to nodes of a higher number only: every shape of tree
\* occurs once, with the nodes SubjectNodes lowest in it.
NextStructure ==
    \/ \E this \in TreeNodes : \E child \in 1..(this - 1) : AddChild(this, child)
    \/ \E this \in TreeNodes : EnableRenderGroup(this)
    \/ \E this \in SubjectNodes, value \in BOOLEAN : SetVisible(this, value)
    \/ \E this \in SubjectNodes, value \in BOOLEAN : SetRenderable(this, value)
    \/ \E this \in SubjectNodes, value \in BlendValues : SetBlendMode(this, value)
    \/ \E g \in TreeNodes : ClearPass(g)

SpecStructure == Init /\ [][NextStructure]_vars

TypeOK ==
    /\ parent \in [Nodes -> Nodes \cup {Null}]
    /\ renderGroup \in [Nodes -> Nodes \cup {Null}]
    /\ \A n \in Nodes : Len(children[n]) <= MaxChildren

\* ------------------------------------------------------------------ claims
\* Number of places node c holds in the children lists of all nodes.
Occurrences(c) ==
    Cardinality({pi \in Nodes \X (1..MaxChildren + 1) :
                    pi[2] <= Len(children[pi[1]]) /\ children[pi[1]][pi[2]] = c})

\* C1: after every addChild or removeChild call, for all nodes P and C, C is an
\* element of P.children if and only if C.parent is P.
C1_ChildrenAgreeWithParent ==
    \A P \in Nodes, C \in Nodes : (C \in Range(children[P])) <=> (parent[C] = P)

\* C2: every node occurs in the children list of at most one node, and at most
\* once in that list.
C2_AtMostOnePlace ==
    \A C \in Nodes : Occurrences(C) <= 1

\* C3: P.removeChild(C) with C not in P.children is a no-op: P.children is
\* unchanged and C is unmodified (its parent, its place in its actual parent's
\* children, its render group and every other field).
C3_RemoveAbsentIsNoOp ==
    [][(lastOp'.op = "removeChild" /\ lastOp'.tag = "absent") =>
          /\ children' = children
          /\ parent'[lastOp'.c] = parent[lastOp'.c]
          /\ renderGroup'[lastOp'.c] = renderGroup[lastOp'.c]
          /\ isRenderGroupRoot'[lastOp'.c] = isRenderGroupRoot[lastOp'.c]
          /\ didChange'[lastOp'.c] = didChange[lastOp'.c]
          /\ didViewUpdate'[lastOp'.c] = didViewUpdate[lastOp'.c]]_vars

\* C4: P.addChild(C) when C.parent is already P moves C to the last position of
\* P.children, keeps the relative order of P's other children and the length of
\* P.children, and leaves C.parent and C.renderGroup unchanged.
Without(seq, c) == SelectSeq(seq, LAMBDA x : x # c)

C5_OnUpdateCoalesces ==
    updRun.calls >= 1 =>
        /\ didChange[updRun.node]
        /\ updRun.notes = (IF updRun.hadTarget THEN 1 ELSE 0)

\* Several consecutive onUpdate calls on a node with a target, one notification.
C5_Witness ==
    /\ updRun.calls = MaxCalls /\ MaxCalls >= 2
    /\ updRun.hadTarget /\ updRun.notes = 1
    /\ lastOp.op = "onUpdate" /\ lastOp.tag = "latched"

\* C6 (as claimed): no operation of the component ever changes a node's
\* didChange or didViewUpdate from true to false; only the external pass does.
C6_NoLatchCleared ==
    [][lastOp'.op # "clearPass" =>
          \A n \in Nodes : /\ didChange[n] => didChange'[n]
                           /\ didViewUpdate[n] => didViewUpdate'[n]]_vars

\* C6 (amended): no operation of the component changes didChange from true to
\* false, and didViewUpdate goes from true to false only for the child that
\* addChild attaches to a new parent; otherwise only the external pass clears.
C6_LatchClearedOnlyByAttach ==
    [][lastOp'.op # "clearPass" =>
          \A n \in Nodes :
              /\ didChange[n] => didChange'[n]
              /\ (didViewUpdate[n] /\ ~didViewUpdate'[n]) =>
                    /\ lastOp'.op = "addChild"
                    /\ lastOp'.tag \in {"attach", "move"}
                    /\ lastOp'.c = n]_vars

\* removeChild has taken out a child whose two latches were set, and they still are.
C6_Witness ==
    /\ lastOp.op = "removeChild" /\ lastOp.tag = "found"
    /\ didChange[lastOp.c] /\ didViewUpdate[lastOp.c]

\* C7: isRenderGroup = false on a render-group root fails with an error and
\* mutates nothing; on a node that is not a root it raises no error and changes
\* nothing.
C7_DemotionRejected ==
    [][lastOp'.op = "isRenderGroup=false" =>
          /\ UNCHANGED prog
          /\ destroyedEmits' = destroyedEmits
          /\ events' = <<>>
          /\ (lastOp'.tag = "error") <=> isRenderGroupRoot[lastOp'.n]]_vars

\* The setter was given false on a root that has a member child, and threw.
C7_Witness ==
    /\ lastOp.op = "isRenderGroup=false" /\ lastOp.tag = "error"
    /\ isRenderGroupRoot[lastOp.n] /\ renderGroup[lastOp.n] = lastOp.n
    /\ \E c \in Nodes : c # lastOp.n /\ renderGroup[c] = lastOp.n

RECURSIVE rootAbove(_)
rootAbove(n) ==
    IF parent[n] = Null THEN Null
    ELSE IF isRenderGroupRoot[parent[n]] THEN parent[n]
    ELSE rootAbove(parent[n])

\* C9: for every node X, X.renderGroup is non-null iff X is a render-group
\* root or has an ancestor that is one; and for a non-root X it is the group of
\* the nearest ancestor that is a render-group root.
C9_GroupIsNearestRoot ==
    \A X \in Nodes :
        /\ (renderGroup[X] # Null) <=> (isRenderGroupRoot[X] \/ rootAbove(X) # Null)
        /\ (renderGroup[X] # Null /\ ~isRenderGroupRoot[X]) =>
              (rootAbove(X) # Null /\ renderGroup[X] = renderGroup[rootAbove(X)])

\* Number of 'destroyed' events of node x among the events of the last call.
destroyedEvents(evs, x) ==
    Cardinality({i \in 1..Len(evs) : evs[i].ev = "destroyed" /\ evs[i].on = x})

\* C10: destroy with the children option on node N destroys every node of N's
\* subtree exactly once ('destroyed' emitted once per node), and afterwards each
\* of them has destroyed = true, parent = null and no children.
C10_DestroyChildrenOnce ==
    [][lastOp'.op = "destroy(children)" =>
          \A x \in Subtree(children, lastOp'.n) :
              /\ destroyed'[x]
              /\ parent'[x] = Null
              /\ children'[x] = <<>>
              /\ destroyedEmits'[x] = 1
              /\ destroyedEvents(events', x) = (IF destroyed[x] THEN 0 ELSE 1)]_vars

\* A destroy with children has destroyed a node, its child and its grandchild.
C10_Witness ==
    /\ lastOp.op = "destroy(children)" /\ lastOp.tag = "first"
    /\ Len(events) >= 3
    /\ \A i \in 1..Len(events) : events[i].ev = "destroyed"
    /\ \A n \in TreeNodes : destroyed[n] /\ destroyedEmits[n] = 1

\* C11: destroy is idempotent: on a node whose destroyed flag is already true
\* it changes no state of any node or render group and emits nothing; and after
\* the first destroy returns, the node has parent = null and is in no node's
\* children list.
C11_DestroyIdempotent ==
    [][lastOp'.op \in {"destroy", "destroy(children)"} =>
          /\ lastOp'.tag = "again" =>
                /\ UNCHANGED prog
                /\ destroyedEmits' = destroyedEmits
                /\ events' = <<>>
          /\ lastOp'.tag = "first" =>
                /\ destroyed'[lastOp'.n]
                /\ parent'[lastOp'.n] = Null
                /\ \A P \in Nodes : lastOp'.n \notin Range(children'[P])]_vars

\* The part of C11 about a repeated destroy, on its own.
C11_SecondDestroyChangesNothing ==
    [][(lastOp'.op \in {"destroy", "destroy(children)"} /\ lastOp'.tag = "again") =>
          /\ UNCHANGED prog
          /\ destroyedEmits' = destroyedEmits
          /\ events' = <<>>]_vars

\* C12: destroy without the children option on node N removes all of N's
\* children from N (N.children becomes empty, each former child has parent =
\* null) but does not destroy them: each former child keeps its destroyed flag
\* and its own children.
C12_DestroyKeepsChildrenAlive ==
    [][(lastOp'.op = "destroy" /\ lastOp'.tag = "first") =>
          LET N == lastOp'.n
          IN  /\ children'[N] = <<>>
              /\ \A c \in Range(children[N]) :
                    /\ parent'[c] = Null
                    /\ destroyed'[c] = destroyed[c]
                    /\ children'[c] = children[c]
                    /\ destroyedEmits'[c] = destroyedEmits[c]]_vars

\* A destroy without the option has detached a live child that has a child of
\* its own, which it keeps.
C12_Witness ==
    /\ lastOp.op = "destroy" /\ lastOp.tag = "first"
    /\ Len(lastOp.kids) = 1
    /\ children[lastOp.n] = <<>>
    /\ LET c == lastOp.kids[1]
       IN  /\ ~destroyed[c] /\ parent[c] = Null
           /\ Len(children[c]) = 1
           /\ parent[children[c][1]] = c

\* C13: in every reachable state, isRenderable is true if and only if both the
\* visible bit and the renderable bit of the node's local visibility state are
\* set and the node's combined alpha (rgAlpha) is strictly greater than 0.
C13_IsRenderable ==
    \A n \in Nodes :
        isRenderable(Cur, n) <=>
            /\ (localVisibleRenderable[n] \div 2) % 2 = 1
            /\ localVisibleRenderable[n] % 2 = 1
            /\ rgAlpha[n] > 0

\* The pass has computed a combined alpha of 0 for a node whose two bits are set.
C13_Witness ==
    /\ lastOp.op = "clearPass"
    /\ \E n \in SubjectNodes :
          /\ localVisibleRenderable[n] = 3 /\ rgAlpha[n] = 0
          /\ ~isRenderable(Cur, n)

\* The packed field of node n after n.visible = false; n.visible = true.
hideThenShow(n) ==
    set_visible(set_visible(Cur, n, FALSE), n, TRUE).localVisibleRenderable[n]

\* C14 (as claimed): any assignment to visible leaves the renderable bit
\* unchanged, any assignment to renderable leaves the visible bit unchanged,
\* and visible=false followed by visible=true restores the packed local
\* visibility state to its prior value.
C14_HideShowRestoresPacked ==
    [][/\ lastOp'.op \in {"visible=true", "visible=false"} =>
             /\ localVisibleRenderable'[lastOp'.n] % 2
                    = localVisibleRenderable[lastOp'.n] % 2
             /\ \A m \in Nodes \ {lastOp'.n} :
                    localVisibleRenderable'[m] = localVisibleRenderable[m]
       /\ lastOp'.op \in {"renderable=true", "renderable=false"} =>
             /\ localVisibleRenderable'[lastOp'.n] \div 2
                    = localVisibleRenderable[lastOp'.n] \div 2
             /\ \A m \in Nodes \ {lastOp'.n} :
                    localVisibleRenderable'[m] = localVisibleRenderable[m]
       /\ \A n \in SubjectNodes : hideThenShow(n) = localVisibleRenderable[n]]_vars

\* C14 (amended): the two bits are independent as claimed, and visible=false
\* followed by visible=true restores the packed state of a node that was
\* visible; for a node that was hidden it leaves the renderable bit as it was
\* and the visible bit set.
C14_BitsIndependent ==
    [][/\ lastOp'.op \in {"visible=true", "visible=false"} =>
             /\ localVisibleRenderable'[lastOp'.n] % 2
                    = localVisibleRenderable[lastOp'.n] % 2
             /\ \A m \in Nodes \ {lastOp'.n} :
                    localVisibleRenderable'[m] = localVisibleRenderable[m]
       /\ lastOp'.op \in {"renderable=true", "renderable=false"} =>
             /\ localVisibleRenderable'[lastOp'.n] \div 2
                    = localVisibleRenderable[lastOp'.n] \div 2
             /\ \A m \in Nodes \ {lastOp'.n} :
                    localVisibleRenderable'[m] = localVisibleRenderable[m]
       /\ \A n \in SubjectNodes :
             hideThenShow(n) = bitAnd(localVisibleRenderable[n], 1) + 2
       /\ \A n \in SubjectNodes :
             get_visible(Cur, n) => hideThenShow(n) = localVisibleRenderable[n]]_vars

\* A node that is not renderable was hidden and has been shown again: the
\* renderable bit is still clear.
C14_Witness ==
    /\ lastOp.op = "visible=true" /\ lastOp.tag = "changed"
    /\ localVisibleRenderable[lastOp.n] = 2

\* The affine map that applies R first and W second.
Composed(R, W) == [a |-> (W.a * R.a) % 3, t |-> (W.a * R.t + W.t) % 3]

\* C15: a read of worldTransform on a render-group root returns its group's
\* worldTransform whatever the node's own position and rgTransform are; on a
\* non-root member it returns rgTransform composed with the group's
\* worldTransform; on a node with no render group it leaves the cached value
\* as it was (the identity when nothing was cached yet).
C15_WorldTransformRead ==
    [][lastOp'.op = "worldTransform" =>
          LET n == lastOp'.n
              g == renderGroup[n]
          IN  /\ worldTransform'[n] =
                    IF g = Null
                    THEN (IF worldTransform[n] = NoMatrix THEN IdentityMatrix
                          ELSE worldTransform[n])
                    ELSE IF isRenderGroupRoot[n] THEN groupWorldTransform[g]
                    ELSE Composed(rgTransform[n], groupWorldTransform[g])
              /\ rgTransform' = rgTransform
              /\ groupWorldTransform' = groupWorldTransform
              /\ position' = position
              /\ \A m \in Nodes \ {n} : worldTransform'[m] = worldTransform[m]]_vars

\* A root whose position and rgTransform are not the defaults has read its
\* group's worldTransform, which differs from the composition.
C15_Witness ==
    /\ lastOp.op = "worldTransform" /\ lastOp.tag = "root"
    /\ position[lastOp.n] # [own |-> TRUE, x |-> 0, y |-> 0]
    /\ rgTransform[lastOp.n] # IdentityMatrix
    /\ groupWorldTransform[lastOp.n] # IdentityMatrix
    /\ worldTransform[lastOp.n] = groupWorldTransform[lastOp.n]
    /\ worldTransform[lastOp.n] #
           Composed(rgTransform[lastOp.n], groupWorldTransform[lastOp.n])

\* C16: once a node is a render-group root it stays one, with the same render
\* group object, whatever is called; and a render group is only ever built by
\* enableRenderGroup (directly or through isRenderGroup = true) on that node.
C16_RootStaysRoot ==
    [][\A n \in Nodes :
          /\ isRenderGroupRoot[n] =>
                /\ isRenderGroupRoot'[n]
                /\ renderGroup[n] = n /\ renderGroup'[n] = n
                /\ groupObject'[n] = groupObject[n]
          /\ (groupObject'[n] # groupObject[n] \/ isRenderGroupRoot'[n] # isRenderGroupRoot[n]) =>
                /\ lastOp'.op \in {"enableRenderGroup", "isRenderGroup=true"}
                /\ lastOp'.n = n]_vars

\* A root nested in another group has been destroyed together with its parent
\* and still owns the one group built for it.
C16_Witness ==
    /\ lastOp.op = "destroy(children)" /\ lastOp.tag = "first"
    /\ \E n \in Nodes \ {lastOp.n} :
          /\ n \in Range(lastOp.kids)
          /\ destroyed[n] /\ isRenderGroupRoot[n]
          /\ renderGroup[n] = n /\ groupObject[n] = 1
          /\ isRenderGroupRoot[lastOp.n]

\* The assignments to the transform inputs.
TransformOps ==
    {"position", "scale", "scale.copyFrom", "pivot", "skew.copyFrom", "rotation", "angle"}

\* C17: every assignment through the public accessors that changes the value
\* of position, scale, pivot, rotation/angle or skew (the first assignment to
\* a scale or pivot that is still the shared default included) triggers
\* onUpdate: didChange is true afterwards, and a node whose didChange was false
\* has been reported to its notification target.
C17_TransformAssignmentsMark ==
    [][(lastOp'.op \in TransformOps /\ lastOp'.tag = "changed") =>
          LET n == lastOp'.n
          IN  /\ didChange'[n]
              /\ (~didChange[n] /\ notifyTarget(Cur, n) # Null) =>
                    childrenToUpdate'[notifyTarget(Cur, n)] =
                        Append(childrenToUpdate[notifyTarget(Cur, n)], n)]_vars

\* C18: when onUpdate sets didChange from false to true, a render-group root
\* notifies the parent group of its own group (nobody if there is none, never
\* its own group), a non-root member notifies its own group, and a node with no
\* render group notifies nobody.
C18_OnUpdateRouting ==
    [][(lastOp'.op = "onUpdate" /\ lastOp'.tag = "set") =>
          LET n == lastOp'.n
              target == IF isRenderGroupRoot[n]
                        THEN renderGroupParent[renderGroup[n]]
                        ELSE renderGroup[n]
          IN  /\ ~didChange[n] /\ didChange'[n]
              /\ \A g \in Nodes :
                    childrenToUpdate'[g] =
                        IF g = target THEN Append(childrenToUpdate[g], n)
                        ELSE childrenToUpdate[g]
              /\ isRenderGroupRoot[n] =>
                    childrenToUpdate'[renderGroup[n]] = childrenToUpdate[renderGroup[n]]]_vars

\* onUpdate on a root nested in another group was reported to that group and
\* not to the root's own.
C18_Witness ==
    /\ lastOp.op = "onUpdate" /\ lastOp.tag = "set"
    /\ isRenderGroupRoot[lastOp.n]
    /\ renderGroupParent[lastOp.n] # Null
    /\ renderGroupParent[lastOp.n] # lastOp.n
    /\ lastOp.n \in Range(childrenToUpdate[renderGroupParent[lastOp.n]])
    /\ lastOp.n \notin Range(childrenToUpdate[lastOp.n])

\* C19: onViewUpdate coalesces on its own latch: with didViewUpdate false,
\* n >= 1 consecutive calls set didViewUpdate and notify the node's own render
\* group exactly once (also when the node is that group's root; nobody without
\* a group); onViewUpdate never changes didChange and onUpdate never changes
\* didViewUpdate.
C19_OnViewUpdateCoalesces ==
    [][/\ lastOp'.op = "onViewUpdate" =>
             LET n == lastOp'.n
             IN  /\ didChange' = didChange
                 /\ childrenToUpdate' = childrenToUpdate
                 /\ didViewUpdate'[n]
                 /\ \A g \in Nodes :
                       childrenRenderablesToUpdate'[g] =
                           IF g = renderGroup[n] /\ lastOp'.tag = "set"
                           THEN Append(childrenRenderablesToUpdate[g], n)
                           ELSE childrenRenderablesToUpdate[g]
       /\ lastOp'.op = "onUpdate" =>
             /\ didViewUpdate' = didViewUpdate
             /\ childrenRenderablesToUpdate' = childrenRenderablesToUpdate
       /\ viewRun'.calls >= 1 =>
             /\ didViewUpdate'[viewRun'.node]
             /\ viewRun'.notes = (IF viewRun'.hadTarget THEN 1 ELSE 0)]_vars

\* Several consecutive onViewUpdate calls on a root nested in another group,
\* while didChange stayed false: one report, held by the root's own group.
C19_Witness ==
    /\ viewRun.calls = MaxCalls /\ MaxCalls >= 2
    /\ viewRun.hadTarget /\ viewRun.notes = 1
    /\ lastOp.op = "onViewUpdate" /\ lastOp.tag = "latched"
    /\ isRenderGroupRoot[viewRun.node]
    /\ renderGroupParent[viewRun.node] # Null
    /\ ~didChange[viewRun.node]
    /\ viewRun.node \in Range(childrenRenderablesToUpdate[viewRun.node])

\* The render group that governs the children of node P (Null: none).
groupOf(P) == renderGroup[P]

\* C20: P.addChild(C) when C.parent is not P: C is removed from its former
\* parent's children (if it had one), C becomes the last element of P.children,
\* C.parent is P, and C is marked fully dirty (didChange = true, didViewUpdate =
\* false, all four category flags set); if P has a render group, C is handed to
\* that group, otherwise no group is touched (beyond the former parent's group
\* letting C go).
C20_AttachChild ==
    [][(lastOp'.op = "addChild" /\ lastOp'.tag \in {"attach", "move"}) =>
          LET P == lastOp'.n
              C == lastOp'.c
              Q == parent[C]
              old == IF Q # Null THEN groupOf(Q) ELSE Null
          IN  /\ Q # Null => C \notin Range(children'[Q])
              /\ children'[P] = Append(children[P], C)
              /\ parent'[C] = P
              /\ didChange'[C] /\ ~didViewUpdate'[C] /\ updateFlags'[C] = 15
              /\ IF groupOf(P) # Null
                 THEN /\ structureDidChange'[groupOf(P)]
                      /\ IF isRenderGroupRoot[C]
                         THEN /\ renderGroup'[C] = C
                              /\ renderGroupParent'[C] = groupOf(P)
                              /\ C \in Range(renderGroupChildren'[groupOf(P)])
                         ELSE renderGroup'[C] = groupOf(P)
                 ELSE /\ \A g \in Nodes \ {old} :
                            /\ structureDidChange'[g] = structureDidChange[g]
                            /\ renderGroupChildren'[g] = renderGroupChildren[g]
                      /\ \A x \in Nodes : renderGroup'[x] \in {renderGroup[x], Null}
                      /\ old = Null =>
                            /\ renderGroup' = renderGroup
                            /\ renderGroupParent' = renderGroupParent]_vars

\* The four category bits.
CategoryBits == {UPDATE_COLOR, UPDATE_BLEND, UPDATE_VISIBLE, UPDATE_TRANSFORM}

\* The category bit a value-changing assignment has to record.
categoryOf(op) ==
    IF op \in {"alpha", "tint"} THEN UPDATE_COLOR
    ELSE IF op = "blendMode" THEN UPDATE_BLEND
    ELSE IF op \in {"visible=true", "visible=false", "renderable=true",
                    "renderable=false"} THEN UPDATE_VISIBLE
    ELSE IF op \in TransformOps THEN UPDATE_TRANSFORM
    ELSE 0

\* C21: the category flags record which categories changed since the last
\* external clear: a value-changing assignment to alpha or tint sets the color
\* bit, to blendMode the blend bit, to visible or renderable the visible bit,
\* and to position, scale, pivot, rotation or skew the transform bit; the
\* component only ever adds bits, also while didChange is latched, and never
\* removes one.
C21_FlagsRecordChanges ==
    [][/\ (categoryOf(lastOp'.op) # 0 /\ lastOp'.tag = "changed") =>
             bitAnd(updateFlags'[lastOp'.n], categoryOf(lastOp'.op)) # 0
       /\ lastOp'.op # "clearPass" =>
             \A n \in Nodes, bit \in CategoryBits :
                 bitAnd(updateFlags[n], bit) # 0 => bitAnd(updateFlags'[n], bit) # 0]_vars

\* The part of C21 about the color, blend and visible bits, on its own.
C21_PaintBitsRecorded ==
    [][/\ (categoryOf(lastOp'.op) \in {UPDATE_COLOR, UPDATE_BLEND, UPDATE_VISIBLE}
            /\ lastOp'.tag = "changed") =>
             bitAnd(updateFlags'[lastOp'.n], categoryOf(lastOp'.op)) # 0
       /\ lastOp'.op # "clearPass" =>
             \A n \in Nodes, bit \in CategoryBits :
                 bitAnd(updateFlags[n], bit) # 0 => bitAnd(updateFlags'[n], bit) # 0]_vars

\* The assignments that change visibility or blend composition.
StructureOps ==
    {"visible=true", "visible=false", "renderable=true", "renderable=false", "blendMode"}

\* C22: every operation that changes paint order, visibility, blend composition
\* or membership of nodes governed by render group G sets G.structureDidChange:
\* a value-changing assignment to visible, renderable or blendMode of a
\* non-root member of G, and a re-add of an existing child that is a member of
\* G, whether its parent is a member of G or G's own root.
C22_StructureChangeFlagsGroup ==
    [][/\ (lastOp'.op \in StructureOps /\ lastOp'.tag = "changed"
            /\ renderGroup[lastOp'.n] # Null /\ ~isRenderGroupRoot[lastOp'.n]) =>
             structureDidChange'[renderGroup[lastOp'.n]]
       /\ (lastOp'.op = "addChild" /\ lastOp'.tag = "reorder"
            /\ renderGroup[lastOp'.n] # Null
            /\ renderGroup[lastOp'.c] = renderGroup[lastOp'.n]) =>
             structureDidChange'[renderGroup[lastOp'.n]]]_vars

\* The part of C22 that leaves out the children of G's own root.
C22_BelowMembersFlagsGroup ==
    [][/\ (lastOp'.op \in StructureOps /\ lastOp'.tag = "changed"
            /\ renderGroup[lastOp'.n] # Null /\ ~isRenderGroupRoot[lastOp'.n]) =>
             structureDidChange'[renderGroup[lastOp'.n]]
       /\ (lastOp'.op = "addChild" /\ lastOp'.tag = "reorder"
            /\ renderGroup[lastOp'.n] # Null /\ ~isRenderGroupRoot[lastOp'.n]
            /\ renderGroup[lastOp'.c] = renderGroup[lastOp'.n]) =>
             structureDidChange'[renderGroup[lastOp'.n]]]_vars

\* C23: a structural change made on a render-group root itself (assigning
\* visible, renderable or blendMode on the root, or re-adding an existing child
\* of the root) does not set structureDidChange on the parent render group nor
\* on any other ancestor group: the flag of every group but the root's own
\* keeps the value it had before the call.
C23_RootAbsorbsStructureChange ==
    [][((lastOp'.op \in StructureOps
            \/ (lastOp'.op = "addChild" /\ lastOp'.tag = "reorder"))
        /\ isRenderGroupRoot[lastOp'.n]) =>
          \A g \in Nodes \ {lastOp'.n} :
              structureDidChange'[g] = structureDidChange[g]]_vars

\* A child of a root nested in another group was re-added while the flag of
\* the parent group was clear, and the flag is still clear.
C23_Witness ==
    /\ lastOp.op = "addChild" /\ lastOp.tag = "reorder"
    /\ isRenderGroupRoot[lastOp.n]
    /\ renderGroupParent[lastOp.n] # Null
    /\ ~structureDidChange[renderGroupParent[lastOp.n]]

\* The blend mode of a root nested in another group was changed while the flag
\* of the parent group was clear, and the flag is still clear.
C23_WitnessAssignment ==
    /\ lastOp.op = "blendMode" /\ lastOp.tag = "changed"
    /\ isRenderGroupRoot[lastOp.n]
    /\ renderGroupParent[lastOp.n] # Null
    /\ ~structureDidChange[renderGroupParent[lastOp.n]]

\* C24: enableRenderGroup is idempotent: on a node that already owns a render
\* group rooted at itself it changes nothing (same render group object, same
\* nested-group lists of every group, same flags), so that a second enable
\* right after a first one leaves the state the first one made.
C24_EnableIdempotent ==
    [][lastOp'.op = "enableRenderGroup" =>
          /\ lastOp'.tag = "owned" =>
                /\ UNCHANGED prog
                /\ destroyedEmits' = destroyedEmits
                /\ events' = <<>>
          /\ renderGroup'[lastOp'.n] = lastOp'.n
          /\ enableRenderGroup(Cur', lastOp'.n) = Cur']_vars

\* enableRenderGroup was called on a root that owns its one group, with a
\* group nested in it and the structural flag clear: all of it is as before.
C24_Witness ==
    /\ lastOp.op = "enableRenderGroup" /\ lastOp.tag = "owned"
    /\ renderGroup[lastOp.n] = lastOp.n /\ groupObject[lastOp.n] = 1
    /\ Len(renderGroupChildren[lastOp.n]) >= 1
    /\ ~structureDidChange[lastOp.n]

\* C25: removeChild(C) on P emits 'childRemoved' on P and 'removed' on C, and
\* the index carried by 'childRemoved' is the position C held in P.children
\* immediately before the call, or -1 when C was not in P.children; a found
\* child is also detached from P's render group G when P has one: a member
\* has no render group afterwards, and the group of a nested root has no
\* parent group and G lists it once less.
C25_RemoveChildNotifies ==
    [][lastOp'.op = "removeChild" =>
          LET P == lastOp'.n
              C == lastOp'.c
              G == renderGroup[P]
          IN  /\ Len(events') = 2
              /\ events'[1].ev = "childRemoved" /\ events'[1].on = P
              /\ events'[1].child = C
              /\ events'[2].ev = "removed" /\ events'[2].on = C
              /\ IF C \in Range(children[P])
                 THEN /\ events'[1].index \in 0..(Len(children[P]) - 1)
                      /\ children[P][events'[1].index + 1] = C
                      /\ \A j \in 1..events'[1].index : children[P][j] # C
                      /\ G # Null =>
                            IF renderGroup[C] = C
                            THEN /\ renderGroupParent'[C] = Null
                                 /\ renderGroupChildren'[G] =
                                        splice1(renderGroupChildren[G],
                                                IF C \in Range(renderGroupChildren[G])
                                                THEN indexOf(renderGroupChildren[G], C)
                                                ELSE Len(renderGroupChildren[G]))
                            ELSE renderGroup'[C] = Null
                 ELSE events'[1].index = -1]_vars

\* The second child of a node governed by a render group was removed: the
\* event carries index 1 and the child is out of the group.
C25_Witness ==
    /\ lastOp.op = "removeChild" /\ lastOp.tag = "found"
    /\ Len(events) = 2 /\ events[1].ev = "childRemoved" /\ events[1].index = 1
    /\ renderGroup[lastOp.n] # Null
    /\ renderGroup[lastOp.c] = Null

\* removeChild was called for a node that is no child of the receiver: the
\* event carries index -1.
C25_WitnessAbsent ==
    /\ lastOp.op = "removeChild" /\ lastOp.tag = "absent"
    /\ Len(events) = 2 /\ events[1].ev = "childRemoved" /\ events[1].index = -1

\* C26: when addChild moves C from a parent Q to a different parent P, the
\* notifications are delivered synchronously in this order: 'childRemoved' on
\* Q, 'removed' on C, 'childAdded' on P, 'added' on C; when the first two are
\* delivered C is already out of Q.children with C.parent = null, and when the
\* last two are delivered C is already the last child of P with C.parent = P.
C26_MoveNotifiesInOrder ==
    [][(lastOp'.op = "addChild" /\ lastOp'.tag = "move") =>
          LET P == lastOp'.n
              C == lastOp'.c
              Q == parent[C]
          IN  /\ Len(events') = 4
              /\ events'[1].ev = "childRemoved" /\ events'[1].on = Q
              /\ events'[2].ev = "removed" /\ events'[2].on = C
              /\ events'[3].ev = "childAdded" /\ events'[3].on = P
              /\ events'[4].ev = "added" /\ events'[4].on = C
              /\ \A i \in 1..2 :
                    /\ events'[i].child = C /\ events'[i].of = Q
                    /\ ~events'[i].heldThen
                    /\ events'[i].parentThen = Null
              /\ \A i \in 3..4 :
                    /\ events'[i].child = C /\ events'[i].of = P
                    /\ events'[i].lastThen
                    /\ events'[i].parentThen = P]_vars

\* The order of the four notifications and what the last two see, on their own.
C26_OrderAndArrival ==
    [][(lastOp'.op = "addChild" /\ lastOp'.tag = "move") =>
          LET P == lastOp'.n
              C == lastOp'.c
              Q == parent[C]
          IN  /\ Len(events') = 4
              /\ events'[1].ev = "childRemoved" /\ events'[1].on = Q
              /\ events'[2].ev = "removed" /\ events'[2].on = C
              /\ events'[3].ev = "childAdded" /\ events'[3].on = P
              /\ events'[4].ev = "added" /\ events'[4].on = C
              /\ \A i \in 1..2 : events'[i].parentThen = Null
              /\ \A i \in 3..4 :
                    /\ events'[i].child = C /\ events'[i].of = P
                    /\ events'[i].lastThen
                    /\ events'[i].parentThen = P]_vars

\* C27: the cached basis scalars are recomputed on every value-changing
\* assignment to rotation or angle and on every skew notification, whatever
\* the latch: after any sequence of rotation and skew mutations, those made
\* while didChange is already true included, cx = cos(rotation + skew.y),
\* sx = sin(rotation + skew.y), cy = -sin(rotation - skew.x) and
\* sy = cos(rotation - skew.x) for the node's current rotation and skew.
C27_BasisScalarsCurrent ==
    \A n \in Nodes :
        LET plus == (rotation[n] + skew[n].y) % 4
            minus == (rotation[n] - skew[n].x) % 4
        IN  /\ cx[n] = (IF plus = 0 THEN 1 ELSE IF plus = 2 THEN -1 ELSE 0)
            /\ sx[n] = (IF plus = 1 THEN 1 ELSE IF plus = 3 THEN -1 ELSE 0)
            /\ cy[n] = (IF minus = 3 THEN 1 ELSE IF minus = 1 THEN -1 ELSE 0)
            /\ sy[n] = (IF minus = 0 THEN 1 ELSE IF minus = 2 THEN -1 ELSE 0)

\* The rotation was changed while didChange was already latched and the skew
\* is not zero: the scalars are not the initial ones and not those of the
\* rotation alone.
C27_Witness ==
    /\ lastOp.op = "rotation" /\ lastOp.tag = "changed"
    /\ didChange[lastOp.n]
    /\ \E g \in Nodes : lastOp.n \in Range(childrenToUpdate[g])
    /\ rotation[lastOp.n] = 1 /\ skew[lastOp.n] = ObservablePoint(1, 0)
    /\ cx[lastOp.n] = 0 /\ sx[lastOp.n] = 1
    /\ cy[lastOp.n] = 0 /\ sy[lastOp.n] = 1

====
